---- MODULE Spec2Model ----
(***************************************************************************)
(* Model of tools/bmp_to_header.py: the command line entry point and the   *)
(* function bmp_to_header, which reads a file into memory and writes a C++ *)
(* header holding its bytes as a hexadecimal array literal.                *)
(*                                                                         *)
(* Files hold bytes.  The text the program writes is represented by its    *)
(* ASCII codes, one f.write call per step, so that the generated file can  *)
(* be parsed back and compared with the input.                             *)
(***************************************************************************)
EXTENDS Integers, Sequences, FiniteSets

VARIABLES argc, input_file, output_file, var_name,
          fs, fs0, pc, data, f_in, f_out, i, j, chunk_size,
          stdout, exit_status, exc

vars == <<argc, input_file, output_file, var_name,
          fs, fs0, pc, data, f_in, f_out, i, j, chunk_size,
          stdout, exit_status, exc>>

(***************************************************************************)
(* Bounds of the model.                                                    *)
(***************************************************************************)
\* longest input file, in bytes (two full rows and a partial third)
MaxLen == 33
\* largest number of positional arguments on the command line
MaxArgs == 4

(***************************************************************************)
(* Program constants.                                                      *)
(***************************************************************************)
\* (a variant with rows one value too long)
RowLenWide == 16 + 1
\* range(0, len(data), 16) and min(16, ...): the values per row
RowLen == 16
\* the number of positional arguments main requires: len(sys.argv) != 4
NeededArgs == 3

Min(a, b) == IF a < b THEN a ELSE b

(***************************************************************************)
(* The literal text of the f.write calls, as ASCII codes.                  *)
(***************************************************************************)
\* "// Generated from "
TxtGenerated == <<47, 47, 32, 71, 101, 110, 101, 114, 97, 116, 101, 100, 32,
                  102, 114, 111, 109, 32>>
\* "\n"
TxtNewline == <<10>>
\* "#pragma once\n\n"
TxtPragma == <<35, 112, 114, 97, 103, 109, 97, 32, 111, 110, 99, 101, 10, 10>>
\* "#include <cstdint>\n\n"
TxtInclude == <<35, 105, 110, 99, 108, 117, 100, 101, 32, 60, 99, 115, 116,
                100, 105, 110, 116, 62, 10, 10>>
\* "inline constexpr unsigned char "
TxtArrayType == <<105, 110, 108, 105, 110, 101, 32, 99, 111, 110, 115, 116,
                  101, 120, 112, 114, 32, 117, 110, 115, 105, 103, 110, 101,
                  100, 32, 99, 104, 97, 114, 32>>
\* "_data[] = {\n"
TxtArrayOpen == <<95, 100, 97, 116, 97, 91, 93, 32, 61, 32, 123, 10>>
\* "    "
TxtIndent == <<32, 32, 32, 32>>
\* "0x"
TxtHexPrefix == <<48, 120>>
\* ", "
TxtSeparator == <<44, 32>>
\* "};\n\n"
TxtArrayClose == <<125, 59, 10, 10>>
\* "inline constexpr unsigned int "
TxtLenType == <<105, 110, 108, 105, 110, 101, 32, 99, 111, 110, 115, 116,
                101, 120, 112, 114, 32, 117, 110, 115, 105, 103, 110, 101,
                100, 32, 105, 110, 116, 32>>
\* "_len = sizeof("
TxtLenSizeof == <<95, 108, 101, 110, 32, 61, 32, 115, 105, 122, 101, 111,
                  102, 40>>
\* "_data);\n"
TxtLenEnd == <<95, 100, 97, 116, 97, 41, 59, 10>>

(***************************************************************************)
(* The command line's strings.  A path is named by a string and spelled    *)
(* in the generated comment by its ASCII codes.                            *)
(***************************************************************************)
Paths == {"a", "b"}
PathText(p) == IF p = "a" THEN <<97>> ELSE <<98>>
\* the identifiers tried as var_name: "x" and "icon"
VarNames == {<<120>>, <<105, 99, 111, 110>>}
\* what an output file may hold before the run: "old"
OldText == <<111, 108, 100>>

(***************************************************************************)
(* format(b, "02x"): two lowercase hexadecimal digits.                     *)
(***************************************************************************)
HexDigit(d) == IF d < 10 THEN 48 + d ELSE 87 + d
\* (a variant with the two digits in the wrong order)
Hex02Swapped(b) == <<HexDigit(b % 16), HexDigit(b \div 16)>>
Hex02(b) == <<HexDigit(b \div 16), HexDigit(b % 16)>>
\* f"0x{data[i+j]:02x}"
HexLiteral(b) == TxtHexPrefix \o Hex02(b)

\* f"// Generated from {input_file}\n"
CommentLine(inp) == TxtGenerated \o PathText(inp) \o TxtNewline
\* f"inline constexpr unsigned char {var_name}_data[] = {{\n"
ArrayDecl(v) == TxtArrayType \o v \o TxtArrayOpen
\* f"inline constexpr unsigned int {var_name}_len = sizeof({var_name}_data);\n"
LenDecl(v) == TxtLenType \o v \o TxtLenSizeof \o v \o TxtLenEnd

\* The value <var_name>_len takes where the generated header is compiled:
\* sizeof(<var_name>_data) is the number of initializers n of the array, the
\* size of unsigned char being 1.  An array of unknown bound with an empty
\* initializer list is ill-formed: a compiler takes it as an array of size 0
\* or rejects the header, and then the constant has no value.
LenConstant(n) ==
    IF n = 0
    THEN {[accepted |-> TRUE, value |-> 0], [accepted |-> FALSE, value |-> 0]}
    ELSE {[accepted |-> TRUE, value |-> n]}

(***************************************************************************)
(* The file system: every path either names no file or a file of bytes.    *)
(***************************************************************************)
NoFile == [exists |-> FALSE, bytes |-> <<>>]
File(b) == [exists |-> TRUE, bytes |-> b]

\* The input files tried: runs of consecutive and of scattered byte values
\* of every length up to MaxLen, and the three bytes 00 41 ff.
Ramp(n, start, step) == [k \in 1..n |-> (start + (k - 1) * step) % 256]
Inputs == {Ramp(n, 0, 1) : n \in 0..MaxLen}
            \cup {Ramp(n, 250, 37) : n \in 1..MaxLen}
            \cup {<<0, 65, 255>>}

\* open(output_file, 'w') creates the file or truncates it
Truncate(files, p) == [files EXCEPT ![p] = File(<<>>)]
\* f.write(text) appends to the open output file
WriteBytes(files, p, text) ==
    [files EXCEPT ![p] = File(files[p].bytes \o text)]

Init ==
    /\ argc \in 0..MaxArgs
    /\ input_file = "a"
    /\ output_file \in Paths
    /\ var_name \in VarNames
    /\ \E b \in Inputs, inExists \in BOOLEAN, outOld \in BOOLEAN :
         /\ inExists \/ b = <<>>
         /\ outOld => output_file # input_file
         /\ fs = [p \in Paths |->
                    IF p = input_file
                    THEN (IF inExists THEN File(b) ELSE NoFile)
                    ELSE (IF outOld THEN File(OldText) ELSE NoFile)]
    /\ fs0 = fs
    /\ pc = "main"
    /\ data = <<>>
    /\ f_in = FALSE
    /\ f_out = FALSE
    /\ i = 0
    /\ j = 0
    /\ chunk_size = 0
    /\ stdout = <<>>
    /\ exit_status = -1
    /\ exc = "none"

(***************************************************************************)
(* __main__                                                                *)
(***************************************************************************)
Usage == [msg |-> "Usage", arg |-> "argv0"]
Generated(out) == [msg |-> "Generated", arg |-> out]

\* (a variant that lets extra arguments through)
ArgsAtLeast(n) == n >= NeededArgs
\* len(sys.argv) != 4 fails: the program name and three arguments
ArgsOk(n) == n = NeededArgs

\* if len(sys.argv) != 4: print(usage); sys.exit(1)
MainUsage ==
    /\ pc = "main"
    /\ ~ArgsOk(argc)
    /\ stdout' = Append(stdout, Usage)
    /\ exit_status' = 1
    /\ pc' = "exited"
    /\ UNCHANGED <<argc, input_file, output_file, var_name, fs, fs0, data,
                   f_in, f_out, i, j, chunk_size, exc>>

\* bmp_to_header(sys.argv[1], sys.argv[2], sys.argv[3]) is called
MainCall ==
    /\ pc = "main"
    /\ ArgsOk(argc)
    /\ pc' = "open_in"
    /\ UNCHANGED <<argc, input_file, output_file, var_name, fs, fs0, data,
                   f_in, f_out, i, j, chunk_size, stdout, exit_status, exc>>

\* print(f"Generated {sys.argv[2]}"), after bmp_to_header has returned
PrintGenerated ==
    /\ pc = "return"
    /\ stdout' = Append(stdout, Generated(output_file))
    /\ pc' = "end"
    /\ UNCHANGED <<argc, input_file, output_file, var_name, fs, fs0, data,
                   f_in, f_out, i, j, chunk_size, exit_status, exc>>

\* the script runs off its end: the interpreter exits with status 0
ExitOk ==
    /\ pc = "end"
    /\ exit_status' = 0
    /\ pc' = "exited"
    /\ UNCHANGED <<argc, input_file, output_file, var_name, fs, fs0, data,
                   f_in, f_out, i, j, chunk_size, stdout, exc>>

\* an exception nobody catches: traceback on stderr, exit status 1
Traceback ==
    /\ pc = "raised"
    /\ exit_status' = 1
    /\ pc' = "exited"
    /\ UNCHANGED <<argc, input_file, output_file, var_name, fs, fs0, data,
                   f_in, f_out, i, j, chunk_size, stdout, exc>>

(***************************************************************************)
(* bmp_to_header: reading the input                                        *)
(***************************************************************************)
\* (a variant that opens the output file before the input is read)
OpenInTruncating ==
    /\ pc = "open_in"
    /\ fs[input_file].exists
    /\ fs' = [fs EXCEPT ![output_file] = [exists |-> TRUE, bytes |-> <<>>]]
    /\ f_in' = TRUE
    /\ pc' = "read"
    /\ UNCHANGED <<argc, input_file, output_file, var_name, fs0, data,
                   f_out, i, j, chunk_size, stdout, exit_status, exc>>

\* with open(input_file, 'rb') as f:
OpenIn ==
    /\ pc = "open_in"
    /\ fs[input_file].exists
    /\ f_in' = TRUE
    /\ pc' = "read"
    /\ UNCHANGED <<argc, input_file, output_file, var_name, fs, fs0, data,
                   f_out, i, j, chunk_size, stdout, exit_status, exc>>

\* open(input_file, 'rb') raises: no such file, or a file that may not be read
OpenInFail ==
    /\ pc = "open_in"
    /\ exc' = "open_in"
    /\ pc' = "raised"
    /\ UNCHANGED <<argc, input_file, output_file, var_name, fs, fs0, data,
                   f_in, f_out, i, j, chunk_size, stdout, exit_status>>

\* data = f.read()
ReadIn ==
    /\ pc = "read"
    /\ data' = fs[input_file].bytes
    /\ pc' = "close_in"
    /\ UNCHANGED <<argc, input_file, output_file, var_name, fs, fs0,
                   f_in, f_out, i, j, chunk_size, stdout, exit_status, exc>>

\* f.read() raises; leaving the with block closes the file
ReadInFail ==
    /\ pc = "read"
    /\ f_in' = FALSE
    /\ exc' = "read"
    /\ pc' = "raised"
    /\ UNCHANGED <<argc, input_file, output_file, var_name, fs, fs0, data,
                   f_out, i, j, chunk_size, stdout, exit_status>>

\* the end of the first with block closes the input file
CloseIn ==
    /\ pc = "close_in"
    /\ f_in' = FALSE
    /\ pc' = "open_out"
    /\ UNCHANGED <<argc, input_file, output_file, var_name, fs, fs0, data,
                   f_out, i, j, chunk_size, stdout, exit_status, exc>>

(***************************************************************************)
(* bmp_to_header: writing the header                                       *)
(***************************************************************************)
\* with open(output_file, 'w') as f:
OpenOut ==
    /\ pc = "open_out"
    /\ fs' = Truncate(fs, output_file)
    /\ f_out' = TRUE
    /\ pc' = "comment"
    /\ UNCHANGED <<argc, input_file, output_file, var_name, fs0, data,
                   f_in, i, j, chunk_size, stdout, exit_status, exc>>

\* open(output_file, 'w') raises: nothing is created or truncated
OpenOutFail ==
    /\ pc = "open_out"
    /\ exc' = "open_out"
    /\ pc' = "raised"
    /\ UNCHANGED <<argc, input_file, output_file, var_name, fs, fs0, data,
                   f_in, f_out, i, j, chunk_size, stdout, exit_status>>

\* one f.write(text) that succeeds, control going on to `next`
Write(text, next) ==
    /\ fs' = WriteBytes(fs, output_file, text)
    /\ pc' = next

\* f.write(f"// Generated from {input_file}\n")
WriteComment ==
    /\ pc = "comment"
    /\ Write(CommentLine(input_file), "pragma")
    /\ UNCHANGED <<argc, input_file, output_file, var_name, fs0, data,
                   f_in, f_out, i, j, chunk_size, stdout, exit_status, exc>>

\* f.write("#pragma once\n\n")
WritePragma ==
    /\ pc = "pragma"
    /\ Write(TxtPragma, "include")
    /\ UNCHANGED <<argc, input_file, output_file, var_name, fs0, data,
                   f_in, f_out, i, j, chunk_size, stdout, exit_status, exc>>

\* f.write("#include <cstdint>\n\n")
WriteInclude ==
    /\ pc = "include"
    /\ Write(TxtInclude, "decl")
    /\ UNCHANGED <<argc, input_file, output_file, var_name, fs0, data,
                   f_in, f_out, i, j, chunk_size, stdout, exit_status, exc>>

\* f.write(f"inline constexpr unsigned char {var_name}_data[] = {{\n"),
\* then the first test of for i in range(0, len(data), 16)
WriteDecl ==
    /\ pc = "decl"
    /\ Write(ArrayDecl(var_name), "for_i")
    /\ i' = 0
    /\ UNCHANGED <<argc, input_file, output_file, var_name, fs0, data,
                   f_in, f_out, j, chunk_size, stdout, exit_status, exc>>

\* (a variant whose loop body runs once before the test)
MoreRowsOrFirst(ii, n) == ii < n \/ ii = 0
\* for i in range(0, len(data), 16): is there another i
MoreRows(ii, n) == ii < n

\* the next i of the row loop: f.write("    "),
\* chunk_size = min(16, len(data) - i), and j starts at 0
RowStart ==
    /\ pc = "for_i"
    /\ MoreRows(i, Len(data))
    /\ Write(TxtIndent, "for_j")
    /\ chunk_size' = Min(RowLen, Len(data) - i)
    /\ j' = 0
    /\ UNCHANGED <<argc, input_file, output_file, var_name, fs0, data,
                   f_in, f_out, i, stdout, exit_status, exc>>

\* (a variant that leaves the comma out after the last value of every row)
NeedsSeparatorInRow(ii, jj, n) == jj < Min(RowLen, n - ii) - 1
\* if i + j < len(data) - 1: a separator follows the value
NeedsSeparator(ii, jj, n) == ii + jj < n - 1

\* f.write(f"0x{data[i+j]:02x}")
WriteValue ==
    /\ pc = "for_j"
    /\ j < chunk_size
    /\ Write(HexLiteral(data[i + j + 1]),
             IF NeedsSeparator(i, j, Len(data)) THEN "sep" ELSE "next_j")
    /\ UNCHANGED <<argc, input_file, output_file, var_name, fs0, data,
                   f_in, f_out, i, j, chunk_size, stdout, exit_status, exc>>

\* f.write(", ")
WriteSeparator ==
    /\ pc = "sep"
    /\ Write(TxtSeparator, "next_j")
    /\ UNCHANGED <<argc, input_file, output_file, var_name, fs0, data,
                   f_in, f_out, i, j, chunk_size, stdout, exit_status, exc>>

\* the next j of for j in range(chunk_size)
NextValue ==
    /\ pc = "next_j"
    /\ j' = j + 1
    /\ pc' = "for_j"
    /\ UNCHANGED <<argc, input_file, output_file, var_name, fs, fs0, data,
                   f_in, f_out, i, chunk_size, stdout, exit_status, exc>>

\* the row is complete: f.write("\n"), and i advances by 16
RowEnd ==
    /\ pc = "for_j"
    /\ j >= chunk_size
    /\ Write(TxtNewline, "for_i")
    /\ i' = i + RowLen
    /\ UNCHANGED <<argc, input_file, output_file, var_name, fs0, data,
                   f_in, f_out, j, chunk_size, stdout, exit_status, exc>>

\* range(0, len(data), 16) is exhausted: f.write("};\n\n")
WriteClose ==
    /\ pc = "for_i"
    /\ ~MoreRows(i, Len(data))
    /\ Write(TxtArrayClose, "len")
    /\ UNCHANGED <<argc, input_file, output_file, var_name, fs0, data,
                   f_in, f_out, i, j, chunk_size, stdout, exit_status, exc>>

\* f.write(f"inline constexpr unsigned int {var_name}_len = sizeof(...);\n")
WriteLen ==
    /\ pc = "len"
    /\ Write(LenDecl(var_name), "close_out")
    /\ UNCHANGED <<argc, input_file, output_file, var_name, fs0, data,
                   f_in, f_out, i, j, chunk_size, stdout, exit_status, exc>>

\* the places of control where the next statement is an f.write
WritePcs == {"comment", "pragma", "include", "decl", "for_i", "for_j",
             "sep", "len"}

\* (a variant without the with block: the file stays open)
WriteFailLeak ==
    /\ pc \in WritePcs
    /\ exc' = "write"
    /\ pc' = "raised"
    /\ UNCHANGED <<argc, input_file, output_file, var_name, fs, fs0, data,
                   f_in, f_out, i, j, chunk_size, stdout, exit_status>>

\* an f.write raises; leaving the with block closes the output file and the
\* exception goes on to the caller
WriteFail ==
    /\ pc \in WritePcs
    /\ f_out' = FALSE
    /\ exc' = "write"
    /\ pc' = "raised"
    /\ UNCHANGED <<argc, input_file, output_file, var_name, fs, fs0, data,
                   f_in, i, j, chunk_size, stdout, exit_status>>

\* the end of the second with block closes the output file
CloseOut ==
    /\ pc = "close_out"
    /\ f_out' = FALSE
    /\ pc' = "return"
    /\ UNCHANGED <<argc, input_file, output_file, var_name, fs, fs0, data,
                   f_in, i, j, chunk_size, stdout, exit_status, exc>>

\* (a variant that swallows the error of close())
CloseOutFailIgnored ==
    /\ pc = "close_out"
    /\ f_out' = FALSE
    /\ exc' = "close"
    /\ pc' = "return"
    /\ UNCHANGED <<argc, input_file, output_file, var_name, fs, fs0, data,
                   f_in, i, j, chunk_size, stdout, exit_status>>

\* the flush of close() raises: the file is closed all the same
CloseOutFail ==
    /\ pc = "close_out"
    /\ f_out' = FALSE
    /\ exc' = "close"
    /\ pc' = "raised"
    /\ UNCHANGED <<argc, input_file, output_file, var_name, fs, fs0, data,
                   f_in, i, j, chunk_size, stdout, exit_status>>

Next ==
    \/ MainUsage
    \/ MainCall
    \/ OpenIn
    \/ OpenInFail
    \/ ReadIn
    \/ ReadInFail
    \/ CloseIn
    \/ OpenOut
    \/ OpenOutFail
    \/ WriteComment
    \/ WritePragma
    \/ WriteInclude
    \/ WriteDecl
    \/ RowStart
    \/ WriteValue
    \/ WriteSeparator
    \/ NextValue
    \/ RowEnd
    \/ WriteClose
    \/ WriteLen
    \/ WriteFail
    \/ CloseOut
    \/ CloseOutFail
    \/ PrintGenerated
    \/ ExitOk
    \/ Traceback

Spec == Init /\ [][Next]_vars

(***************************************************************************)
(* Reading the generated file back.  The text is split at its newlines;    *)
(* the array body is what lies between the line that opens the array and   *)
(* the line "};"; each body line is scanned as a row of hexadecimal        *)
(* literals, every one with the comma and the space found after it.        *)
(***************************************************************************)
\* the bytes of the output file
Content == fs[output_file].bytes
\* B, the bytes of the input file before the run
B == fs0[input_file].bytes

\* the positions of the newlines of c
Newlines(c) == {p \in 1..Len(c) : c[p] = 10}

\* the newline-terminated lines of c, and what follows the last newline
SplitLines(c) ==
    LET nl == Newlines(c)
        n == Cardinality(nl)
        start(k) == IF k = 1 THEN 1
                    ELSE 1 + CHOOSE p \in nl :
                                 Cardinality({q \in nl : q < p}) = k - 2
        end(k) == CHOOSE p \in nl : Cardinality({q \in nl : q < p}) = k - 1
    IN  [lines |-> [k \in 1..n |-> SubSeq(c, start(k), end(k) - 1)],
         rest |-> SubSeq(c, start(n + 1), Len(c))]

IsLowerHex(c) == c \in 48..57 \/ c \in 97..102
HexValue(c) == IF c <= 57 THEN c - 48 ELSE c - 87
NoEntry == [val |-> -1, comma |-> FALSE, space |-> FALSE]

RECURSIVE ParseEntries(_, _)
ParseEntries(s, p) ==
    IF p > Len(s) THEN <<>>
    ELSE IF /\ p + 3 <= Len(s)
            /\ s[p] = 48
            /\ s[p + 1] = 120
            /\ IsLowerHex(s[p + 2])
            /\ IsLowerHex(s[p + 3])
         THEN LET comma == p + 4 <= Len(s) /\ s[p + 4] = 44
                  space == comma /\ p + 5 <= Len(s) /\ s[p + 5] = 32
                  q == p + 4 + (IF comma THEN 1 ELSE 0)
                             + (IF space THEN 1 ELSE 0)
              IN  <<[val |-> 16 * HexValue(s[p + 2]) + HexValue(s[p + 3]),
                     comma |-> comma, space |-> space]>>
                      \o ParseEntries(s, q)
         ELSE <<NoEntry>>

\* the entries of one body line: four spaces, then the literals
LineEntries(line) ==
    IF Len(line) >= 4 /\ \A k \in 1..4 : line[k] = 32
    THEN ParseEntries(line, 5)
    ELSE <<NoEntry>>

\* the index of the line that opens the array (it ends in "{"), 0 if none
OpenIndex(lines) ==
    LET S == {k \in 1..Len(lines) :
                Len(lines[k]) > 0 /\ lines[k][Len(lines[k])] = 123}
    IN  IF S = {} THEN 0 ELSE CHOOSE k \in S : \A m \in S : k <= m

\* the index of the line "};" after the opening line, 0 if none
CloseIndex(lines) ==
    LET S == {k \in (OpenIndex(lines) + 1)..Len(lines) : lines[k] = <<125, 59>>}
    IN  IF S = {} THEN 0 ELSE CHOOSE k \in S : \A m \in S : k <= m

\* the lines of the array body written so far, the unfinished one included
BodyOf(c) ==
    LET sp == SplitLines(c)
        o == OpenIndex(sp.lines)
        e == CloseIndex(sp.lines)
    IN  IF o = 0 THEN <<>>
        ELSE IF e # 0 THEN SubSeq(sp.lines, o + 1, e - 1)
        ELSE SubSeq(sp.lines, o + 1, Len(sp.lines))
               \o (IF sp.rest = <<>> THEN <<>> ELSE <<sp.rest>>)
BodyLines == BodyOf(Content)

RECURSIVE Flatten(_)
Flatten(ss) == IF ss = <<>> THEN <<>> ELSE Head(ss) \o Flatten(Tail(ss))

\* the rows of entries, and all the entries in the order they were written
RowsOf(body) == [k \in 1..Len(body) |-> LineEntries(body[k])]
Rows == LET body == BodyLines IN RowsOf(body)
Entries == LET rows == Rows IN Flatten(rows)
Values(es) == [k \in 1..Len(es) |-> es[k].val]

\* the array has been opened; the whole file has been written
ArrayOpened == f_out /\ pc \in {"for_i", "for_j", "sep", "next_j", "len", "close_out"}
Written == argc = 3 /\ exc \in {"none", "close"}
             /\ pc \in {"close_out", "return", "end", "exited", "raised"}

(***************************************************************************)
(* C1. The array body holds one entry per input byte: while the rows are   *)
(* written the entries decode to the bytes of B written so far, and in the *)
(* finished file there are exactly Len(B) entries, the k-th being "0x"     *)
(* and the two lowercase hexadecimal digits of B[k], in the order of B.    *)
(***************************************************************************)
C1_RoundTrip ==
    /\ ArrayOpened =>
         LET es == Entries
         IN  /\ Len(es) <= Len(B)
             /\ Values(es) = SubSeq(B, 1, Len(es))
    /\ Written =>
         LET es == Entries
         IN  /\ Len(es) = Len(B)
             /\ \A k \in 1..Len(B) : es[k].val = B[k]

\* a file of 33 scattered bytes has been written in full, over three rows
C1_Witness ==
    /\ Written /\ pc = "exited"
    /\ Len(B) > 32 /\ B[1] = 250
    /\ Len(Entries) = Len(B)

Commas(c) == Cardinality({p \in 1..Len(c) : c[p] = 44})

C3_Commas ==
    Written =>
        LET es == Entries
        IN  /\ Len(es) = Len(B)
            /\ \A k \in 1..Len(B) : es[k].comma = (k < Len(B))
            /\ Commas(Content) = (IF Len(B) = 0 THEN 0 ELSE Len(B) - 1)

\* 17 bytes: the 16th entry ends the first row with a comma, the 17th has none
C3_Witness ==
    /\ Written /\ pc = "exited"
    /\ Len(B) = 17
    /\ Len(Rows) = 2
    /\ Rows[1][16].comma
    /\ ~Rows[2][1].comma

(***************************************************************************)
(* C4. While the rows are written and in the finished file, no body line   *)
(* holds more than 16 entries; the finished file of n bytes has            *)
(* ceil(n/16) body lines, each but the last of exactly 16 entries, the     *)
(* last of the n - 16*(ceil(n/16) - 1) > 0 entries that remain.            *)
(***************************************************************************)
C4_Rows ==
    /\ (ArrayOpened \/ Written) =>
         LET rows == Rows
         IN  \A r \in 1..Len(rows) :
                /\ Len(rows[r]) <= 16
                /\ \A k \in 1..Len(rows[r]) : rows[r][k] # NoEntry
    /\ Written =>
         LET rows == Rows
             n == Len(B)
             m == (n + 15) \div 16
         IN  /\ Len(rows) = m
             /\ \A r \in 1..(m - 1) : Len(rows[r]) = 16
             /\ m > 0 => /\ Len(rows[m]) = n - 16 * (m - 1)
                         /\ Len(rows[m]) > 0

\* 33 bytes: two full rows and a third of one entry
C4_Witness ==
    /\ Written /\ pc = "exited"
    /\ Len(B) = 33
    /\ Len(Rows) = 3
    /\ Len(Rows[2]) = 16
    /\ Len(Rows[3]) = 1

(***************************************************************************)
(* C5. For an empty input file the row loop never runs, no step fails      *)
(* unless an I/O operation does, and the finished file holds the opening   *)
(* line of the array, directly followed by the line "};", an empty line    *)
(* and the length declaration: no body line, no entry, no comma.           *)
(***************************************************************************)
EmptyInput == argc = 3 /\ fs0[input_file].exists /\ B = <<>>

C5_Empty ==
    EmptyInput =>
        /\ pc \notin {"for_j", "sep", "next_j"}
        /\ i = 0 /\ j = 0 /\ chunk_size = 0
        /\ exc \in {"none", "open_in", "read", "open_out", "write", "close"}
        /\ (pc = "exited" /\ exc = "none") => exit_status = 0
        /\ Written =>
             LET sp == SplitLines(Content)
                 o == OpenIndex(sp.lines)
             IN  /\ o > 0
                 /\ Len(sp.lines) = o + 3
                 /\ Append(sp.lines[o], 10) = ArrayDecl(var_name)
                 /\ sp.lines[o + 1] = <<125, 59>>
                 /\ sp.lines[o + 2] = <<>>
                 /\ Append(sp.lines[o + 3], 10) = LenDecl(var_name)
                 /\ sp.rest = <<>>
                 /\ Entries = <<>>
                 /\ Commas(Content) = 0

\* an empty file has been converted and the program has exited with status 0
C5_Witness ==
    /\ EmptyInput
    /\ Written /\ pc = "exited" /\ exit_status = 0
    /\ Len(Content) > 0

(***************************************************************************)
(* C6. Started with a number of arguments other than 3, the program prints *)
(* the usage message and exits with status 1; it opens neither file, the   *)
(* file system stays as it was, and "Generated" is not printed.            *)
(***************************************************************************)
Printed(m) == \E k \in 1..Len(stdout) : stdout[k].msg = m

C6_Usage ==
    argc # 3 =>
        /\ pc \in {"main", "exited"}
        /\ fs = fs0
        /\ ~f_in /\ ~f_out
        /\ ~Printed("Generated")
        /\ pc = "main" => stdout = <<>> /\ exit_status = -1
        /\ pc = "exited" => stdout = <<Usage>> /\ exit_status = 1

\* four arguments, an output file that exists: usage, status 1, file untouched
C6_Witness ==
    /\ argc = 4
    /\ pc = "exited" /\ exit_status = 1
    /\ output_file = "b" /\ fs0["b"].exists
    /\ Printed("Usage")

(***************************************************************************)
(* C7. "Generated" is printed, and the status is 0, only once the output   *)
(* file has been written through the length declaration and closed; once   *)
(* an I/O operation has failed, control is at the raised exception or the  *)
(* process has exited, no step is tried again, "Generated" is not printed  *)
(* and the exit status is 1.                                               *)
(***************************************************************************)
EndsWith(c, t) ==
    Len(c) >= Len(t) /\ SubSeq(c, Len(c) - Len(t) + 1, Len(c)) = t

C7_FailFast ==
    /\ Printed("Generated") =>
         /\ argc = 3
         /\ pc \in {"end", "exited"}
         /\ exc = "none"
         /\ ~f_in /\ ~f_out
         /\ EndsWith(Content, LenDecl(var_name))
         /\ stdout = <<Generated(output_file)>>
    /\ exit_status = 0 => Printed("Generated") /\ pc = "exited"
    /\ exc # "none" =>
         /\ pc \in {"raised", "exited"}
         /\ ~Printed("Generated")
         /\ exit_status = (IF pc = "exited" THEN 1 ELSE -1)

\* a run that wrote three rows, printed Generated and exited with status 0
C7_Witness ==
    /\ Printed("Generated")
    /\ pc = "exited" /\ exit_status = 0
    /\ Len(B) > 32

(***************************************************************************)
(* C8. The two files are never open together: the input file is open only  *)
(* for the read and is closed before the output file is opened, with all   *)
(* of the input in memory; the output file is open only for the writes;    *)
(* and no file is open once bmp_to_header has returned or raised.          *)
(***************************************************************************)
C8_Handles ==
    /\ ~(f_in /\ f_out)
    /\ f_in => pc \in {"read", "close_in"}
    /\ f_out => /\ pc \in WritePcs \cup {"next_j", "close_out"}
                /\ data = B
    /\ pc \in {"main", "open_in", "open_out", "raised", "return", "end", "exited"}
         => ~f_in /\ ~f_out
    /\ pc = "open_out" => data = B

\* a write has failed in the middle of the second row: nothing is left open
C8_Witness ==
    /\ exc = "write" /\ pc = "raised"
    /\ i = 16 /\ j > 0
    /\ ~f_in /\ ~f_out
    /\ Len(Content) > 0

(***************************************************************************)
(* C9. In the finished file the values of a body line are separated by     *)
(* exactly a comma and a space, and the newline that ends a line comes     *)
(* directly after the comma of its last value, or directly after the last  *)
(* value on the final line.                                                *)
(***************************************************************************)
C9_LineFormat ==
    Written =>
        LET rows == Rows
        IN  \A r \in 1..Len(rows) :
              \A k \in 1..Len(rows[r]) :
                 LET e == rows[r][k]
                 IN  /\ e # NoEntry
                     /\ k < Len(rows[r]) => e.comma /\ e.space
                     /\ k = Len(rows[r]) => /\ ~e.space
                                            /\ e.comma = (r < Len(rows))

(***************************************************************************)
(* C10. Until the input has been read and closed the file system is as it  *)
(* was before the run, and it stays so when opening or reading the input   *)
(* fails; the output file is opened only with all of the input in memory,  *)
(* so that with one path for input and output the array written holds the  *)
(* bytes the file had before it was truncated.                             *)
(***************************************************************************)
C10_ReadFirst ==
    /\ pc \in {"main", "open_in", "read", "close_in", "open_out"} => fs = fs0
    /\ exc \in {"open_in", "read"} => fs = fs0
    /\ (Written /\ input_file = output_file) => Values(Entries) = B

\* input and output are one file of more than a row: the old bytes are written
C10_Witness ==
    /\ Written /\ pc = "exited"
    /\ input_file = output_file
    /\ Len(B) > 16
    /\ Values(Entries) = B

====
